---- MODULE Spec2Model ----
(***************************************************************************)
(* Verification model of the wildduck search layer:                        *)
(*   - migrations/database/add_search_fields.js : addSearchFields (batch   *)
(*     migration) and buildSearchFromEnvelope (envelope extractor);        *)
(*   - the search filter module : uidRangeStringToQuery and                *)
(*     prepareSearchFilter.                                                *)
(* Strings are sequences of one-character strings, so that lower-casing,   *)
(* trimming, splitting and number parsing are computed, not assumed.       *)
(***************************************************************************)
EXTENDS Integers, Sequences, FiniteSets, TLC

\* ------------------------------------------------------------------------
\* Bounds of the model
\* ------------------------------------------------------------------------

\* identifiers of the messages collection are 1..MaxId
MaxId == 3

\* number of addSearchFields runs in one behaviour
MaxRuns == 2

\* BATCH_SIZE of add_search_fields.js:7 is 1000; the model runs the same loop
\* with a small batch so that several batches happen on a small collection
BATCH_SIZE == 2

\* ------------------------------------------------------------------------
\* Strings
\* ------------------------------------------------------------------------

\* the empty string; also stands for null/undefined where the code only
\* tests truthiness
Empty == << >>

Truthy(s) == Len(s) > 0

\* String.prototype.toLowerCase, on the letters the model uses
LowerChar(c) ==
    CASE c = "A" -> "a"
      [] c = "B" -> "b"
      [] c = "J" -> "j"
      [] c = "D" -> "d"
      [] c = "H" -> "h"
      [] c = "R" -> "r"
      [] OTHER -> c

toLowerCase(s) == [i \in 1..Len(s) |-> LowerChar(s[i])]

IsSpace(c) == c = " "

RECURSIVE TrimLeft(_)
TrimLeft(s) ==
    IF Len(s) = 0 THEN s
    ELSE IF IsSpace(Head(s)) THEN TrimLeft(Tail(s)) ELSE s

RECURSIVE TrimRight(_)
TrimRight(s) ==
    IF Len(s) = 0 THEN s
    ELSE IF IsSpace(s[Len(s)]) THEN TrimRight(SubSeq(s, 1, Len(s) - 1)) ELSE s

\* String.prototype.trim
trim(s) == TrimRight(TrimLeft(s))

includes(s, c) == \E i \in 1..Len(s) : s[i] = c

\* Array.prototype.join(' ') over a sequence of strings
RECURSIVE join(_)
join(ss) ==
    IF Len(ss) = 0 THEN Empty
    ELSE IF Len(ss) = 1 THEN ss[1]
    ELSE ss[1] \o <<" ">> \o join(Tail(ss))

\* ------------------------------------------------------------------------
\* buildSearchFromEnvelope (add_search_fields.js:105-199)
\* ------------------------------------------------------------------------

\* An address-list entry [name, null, user, domain]. A missing part is Empty;
\* an entry that is not an array contributes nothing, like Entry(Empty,
\* Empty, Empty).
Entry(name, user, domain) == [name |-> name, user |-> user, domain |-> domain]

\* An envelope: positions 1 (subject), 2 (from), 5 (to), 6 (cc). A missing
\* or non-array list is the empty sequence.
Envelope(subject, from, to, cc) ==
    [present |-> TRUE, subject |-> subject, from |-> from, to |-> to, cc |-> cc]

NoEnvelope ==
    [present |-> FALSE, subject |-> Empty, from |-> << >>, to |-> << >>, cc |-> << >>]

\* lines 116-122: addresses of the entries that have user and domain
RECURSIVE EntryAddresses(_)
EntryAddresses(entries) ==
    IF Len(entries) = 0 THEN << >>
    ELSE LET entry == Head(entries)
             addr == trim(toLowerCase(entry.user \o <<"@">> \o entry.domain))
         IN  (IF Truthy(entry.user) /\ Truthy(entry.domain) /\ includes(addr, "@")
              THEN <<addr>> ELSE << >>) \o EntryAddresses(Tail(entries))

\* lines 123-128: names of the entries that have a non-blank name
RECURSIVE EntryNames(_)
EntryNames(entries) ==
    IF Len(entries) = 0 THEN << >>
    ELSE LET entry == Head(entries)
             name == trim(toLowerCase(entry.name))
         IN  (IF Truthy(entry.name) /\ Truthy(name)
              THEN <<name>> ELSE << >>) \o EntryNames(Tail(entries))

\* a key of the search object, present only under its condition
Field(cond, key, value) == IF cond THEN key :> value ELSE << >>

\* lines 112-136 (from), 139-163 (to), 166-190 (cc)
ListFields(entries, addrKey, nameKey) ==
    LET addresses == EntryAddresses(entries)
        names == EntryNames(entries)
    IN  Field(Len(entries) > 0 /\ Len(addresses) > 0, addrKey, addresses)
        @@ Field(Len(entries) > 0 /\ Len(names) > 0, nameKey, join(names))

\* lines 193-196
SubjectField(envelope, subjectField) ==
    LET subject == IF Truthy(subjectField) THEN subjectField ELSE envelope.subject
    IN  Field(Truthy(subject), "subject", trim(toLowerCase(subject)))

buildSearchFromEnvelope(envelope, subjectField) ==
    IF ~envelope.present THEN << >>
    ELSE ListFields(envelope.from, "from", "fromName")
         @@ ListFields(envelope.to, "to", "toName")
         @@ ListFields(envelope.cc, "cc", "ccName")
         @@ SubjectField(envelope, subjectField)

\* ------------------------------------------------------------------------
\* uidRangeStringToQuery (search filter module, lines 6-47)
\* ------------------------------------------------------------------------

Digits == {"0", "1", "2", "3", "4", "5", "6", "7", "8", "9"}

DigitValue(c) ==
    CASE c = "0" -> 0 [] c = "1" -> 1 [] c = "2" -> 2 [] c = "3" -> 3 [] c = "4" -> 4
      [] c = "5" -> 5 [] c = "6" -> 6 [] c = "7" -> 7 [] c = "8" -> 8 [] OTHER -> 9

\* /^\d+$/
IsNumber(s) == Len(s) > 0 /\ \A i \in 1..Len(s) : s[i] \in Digits

\* String.prototype.split on a one-character separator
RECURSIVE split(_, _)
split(s, sep) ==
    IF \E i \in 1..Len(s) : s[i] = sep
    THEN LET i == CHOOSE i \in 1..Len(s) : s[i] = sep /\ \A j \in 1..(i - 1) : s[j] # sep
         IN  <<SubSeq(s, 1, i - 1)>> \o split(SubSeq(s, i + 1, Len(s)), sep)
    ELSE <<s>>

\* the value Number() gives for a string that is no number
NaN == -1

RECURSIVE DigitsValue(_)
DigitsValue(s) ==
    IF Len(s) = 0 THEN 0
    ELSE 10 * DigitsValue(SubSeq(s, 1, Len(s) - 1)) + DigitValue(s[Len(s)])

\* Number(uid) on the strings the three patterns let through
Number(s) == IF IsNumber(s) THEN DigitsValue(s) ELSE NaN

MapNumber(parts) == [k \in 1..Len(parts) |-> Number(parts[k])]

\* mutant: the comparator returns b - a
CompareDescending(a, b) == IF a = NaN \/ b = NaN THEN 0 ELSE b - a

\* the comparator of lines 26-34 on two numbers: a and b are numbers, never
\* '*', so it returns a - b, which is NaN when either is NaN; sort() takes a
\* NaN result as 0
Compare(a, b) == IF a = NaN \/ b = NaN THEN 0 ELSE a - b

\* Array.prototype.sort with that comparator (stable insertion)
RECURSIVE InsertSorted(_, _)
InsertSorted(x, sorted) ==
    IF Len(sorted) = 0 THEN <<x>>
    ELSE IF Compare(x, Head(sorted)) < 0 THEN <<x>> \o sorted
    ELSE <<Head(sorted)>> \o InsertSorted(x, Tail(sorted))

RECURSIVE sort(_)
sort(xs) ==
    IF Len(xs) = 0 THEN << >>
    ELSE InsertSorted(xs[Len(xs)], sort(SubSeq(xs, 1, Len(xs) - 1)))

\* /^\d+(,\d+)*$/
IsNumberList(s) == \A k \in 1..Len(split(s, ",")) : IsNumber(split(s, ",")[k])

\* /^\d+:(\d+|\*)$/
IsRange(s) ==
    LET parts == split(s, ":")
    IN  /\ Len(parts) = 2
        /\ IsNumber(parts[1])
        /\ (IsNumber(parts[2]) \/ parts[2] = <<"*">>)

\* The results: no constraint (undefined), a number, { $in }, { $gte, $lte? }
NoQuery == [op |-> "none"]
EqQuery(n) == [op |-> "eq", n |-> n]
InQuery(ns) == [op |-> "in", ns |-> ns]
GteQuery(low) == [op |-> "gte", low |-> low]
RangeQuery(low, high) == [op |-> "range", low |-> low, high |-> high]

uidRangeStringToQuery(uidRange) ==
    IF ~Truthy(uidRange) THEN NoQuery
    ELSE IF IsNumber(uidRange) THEN EqQuery(Number(uidRange))
    ELSE IF IsNumberList(uidRange) THEN InQuery(sort(MapNumber(split(uidRange, ","))))
    ELSE IF IsRange(uidRange)
    THEN LET parts == sort(MapNumber(split(uidRange, ":")))
         IN  IF parts[1] = parts[2] /\ parts[1] # NaN THEN EqQuery(parts[1])
             ELSE IF parts[2] # NaN THEN RangeQuery(parts[1], parts[2])
             ELSE GteQuery(parts[1])
    ELSE NoQuery

\* a query is truthy unless it is undefined or the number 0 (line 169)
QueryTruthy(q) == q.op # "none" /\ ~(q.op = "eq" /\ q.n = 0)

\* ------------------------------------------------------------------------
\* prepareSearchFilter (search filter module, lines 49-298): the payload
\* ------------------------------------------------------------------------

\* term.split(/\s+/).filter(w => w): the maximal runs of non-space characters
RECURSIVE Words(_)
Words(s) ==
    LET t == TrimLeft(s)
    IN  IF Len(t) = 0 THEN << >>
        ELSE IF \E i \in 1..Len(t) : IsSpace(t[i])
        THEN LET i == CHOOSE i \in 1..Len(t) :
                           IsSpace(t[i]) /\ \A j \in 1..(i - 1) : ~IsSpace(t[j])
             IN  <<SubSeq(t, 1, i - 1)>> \o Words(SubSeq(t, i, Len(t)))
        ELSE <<t>>

\* escapeRegexStr of ./tools: a pattern that matches the string literally
escapeRegexStr(s) == [literal |-> s]

BoolFields == {"mailbox", "thread", "attachments", "flagged", "unseen", "seen",
               "searchable", "datestart", "dateend"}
TextFields == {"id", "query", "or.query", "from", "or.from", "to", "or.to",
               "subject", "or.subject"}
SizeFields == {"minSize", "maxSize"}
PayloadFields == BoolFields \cup TextFields \cup SizeFields

\* the value of a field the payload does not carry
Absent(f) == IF f \in BoolFields THEN FALSE ELSE IF f \in TextFields THEN Empty ELSE 0

\* the values the model gives a field the payload carries
Values(f) ==
    CASE f = "id" -> {<<"0">>, <<"5">>, <<"3", ",", "1">>, <<"7", ":", "3">>,
                      <<"5", ":", "*">>, <<"a">>}
      [] f \in {"query", "or.query"} -> {<<"q">>}
      [] f \in {"from", "or.from", "to", "or.to"} -> {<<"A", "@", "b">>, <<" ", "J", " ">>}
      [] f \in {"subject", "or.subject"} -> {<<"H", "i">>, <<"a", " ", "B">>, <<" ">>}
      [] f \in SizeFields -> {5}
      [] OTHER -> {TRUE}

EmptyPayload == [f \in PayloadFields |-> Absent(f)]

\* the payload fields in the order of lines 50-69
FieldOrder == <<"mailbox", "id", "thread", "or.query", "or.from", "or.to", "or.subject",
                "query", "datestart", "dateend", "from", "to", "subject", "attachments",
                "flagged", "unseen", "seen", "searchable", "minSize", "maxSize">>

\* the payloads that carry at most n of the fields FieldOrder[k], FieldOrder[k+1], ...
RECURSIVE PayloadsFrom(_, _)
PayloadsFrom(k, n) ==
    IF n = 0 \/ k > Len(FieldOrder) THEN {EmptyPayload}
    ELSE PayloadsFrom(k + 1, n) \cup
         {[p EXCEPT ![FieldOrder[k]] = v] :
              p \in PayloadsFrom(k + 1, n - 1), v \in Values(FieldOrder[k])}

\* ------------------------------------------------------------------------
\* prepareSearchFilter: the filter object
\* ------------------------------------------------------------------------

\* filter[key] = value, replacing an earlier value
Set(filter, key, value) == (key :> value) @@ filter

Has(filter, key) == key \in DOMAIN filter

\* the state of the compilation: the filter and the orQuery array of line 55
Building(filter, orQuery) == [filter |-> filter, orQuery |-> orQuery]

\* line 50: new ObjectId(payload.mailbox)
MailboxParam == [op |-> "eq", id |-> 1]

\* no mailbox scope: filter.mailbox is not set
NoScope == [op |-> "none"]

\* mutant: the or-bundle query does not force searchable (line 109 missing)
TextStepNoForce(p, user) ==
    IF Truthy(p["query"])
    THEN Building(Set(Set("user" :> user, "searchable", TRUE), "$text", p["query"]), << >>)
    ELSE IF Truthy(p["or.query"])
    THEN Building("user" :> user, <<[text |-> p["or.query"]]>>)
    ELSE Building("user" :> user, << >>)

\* lines 101-111
TextStep(p, user) ==
    IF Truthy(p["query"])
    THEN Building(Set(Set("user" :> user, "searchable", TRUE), "$text", p["query"]), << >>)
    ELSE IF Truthy(p["or.query"])
    THEN Building(Set("user" :> user, "searchable", TRUE), <<[text |-> p["or.query"]]>>)
    ELSE Building("user" :> user, << >>)

\* lines 113-114, 142, 159: the scope the mailbox branch resolved
ScopeStep(st, scope) ==
    IF scope.op # "none"
    THEN Building(Set(st.filter, "mailbox", scope), st.orQuery)
    ELSE st

\* mutant: the uid predicate is attached without testing filter.mailbox
UidStepNoScope(st, p) ==
    LET idQuery == uidRangeStringToQuery(p["id"])
    IN  IF QueryTruthy(idQuery)
        THEN Building(Set(st.filter, "uid", idQuery), st.orQuery)
        ELSE st

\* lines 51, 169-171
UidStep(st, p) ==
    LET idQuery == uidRangeStringToQuery(p["id"])
    IN  IF Has(st.filter, "mailbox") /\ QueryTruthy(idQuery)
        THEN Building(Set(st.filter, "uid", idQuery), st.orQuery)
        ELSE st

\* lines 173-180
ThreadFlaggedStep(st, p) ==
    LET f1 == IF p["thread"] THEN Set(st.filter, "thread", TRUE) ELSE st.filter
        f2 == IF p["flagged"] THEN Set(f1, "flagged", TRUE) ELSE f1
    IN  Building(f2, st.orQuery)

\* lines 182-185
SeenStep(st, p) ==
    IF p["seen"]
    THEN Building(Set(Set(st.filter, "unseen", FALSE), "searchable", TRUE), st.orQuery)
    ELSE st

\* mutant: "else if (filterUnseen)": unseen is skipped when seen is set
UnseenStepElse(st, p) ==
    IF p["unseen"] /\ ~p["seen"]
    THEN Building(Set(Set(st.filter, "unseen", TRUE), "searchable", TRUE), st.orQuery)
    ELSE st

\* lines 187-191
UnseenStep(st, p) ==
    IF p["unseen"]
    THEN Building(Set(Set(st.filter, "unseen", TRUE), "searchable", TRUE), st.orQuery)
    ELSE st

\* lines 193-195
SearchableStep(st, p) ==
    IF p["searchable"] THEN Building(Set(st.filter, "searchable", TRUE), st.orQuery) ELSE st

\* lines 58-59, 197-209
DateStep(st, p) ==
    LET idate == (IF p["datestart"] THEN "$gte" :> TRUE ELSE << >>)
                 @@ (IF p["dateend"] THEN "$lte" :> TRUE ELSE << >>)
    IN  IF p["datestart"] \/ p["dateend"]
        THEN Building(Set(st.filter, "idate", idate), st.orQuery)
        ELSE st

\* filter.$and, created empty when missing (lines 213-215, 236-238, 260-262)
AndOf(filter) == IF Has(filter, "$and") THEN filter["$and"] ELSE << >>

PushAnd(st, preds) == Building(Set(st.filter, "$and", AndOf(st.filter) \o preds), st.orQuery)

PushOr(st, preds) == Building(st.filter, st.orQuery \o preds)

\* lines 216-221 and 226-231: the predicate of a from term
FromPredicate(raw) ==
    LET term == trim(toLowerCase(raw))
    IN  IF includes(term, "@")
        THEN [field |-> "search.from", eq |-> term]
        ELSE [field |-> "search.fromName", regex |-> escapeRegexStr(term)]

\* lines 239-244 and 249-254: the predicate of a to term
ToPredicate(raw) ==
    LET term == trim(toLowerCase(raw))
    IN  IF includes(term, "@")
        THEN [or |-> <<[field |-> "search.to", eq |-> term],
                       [field |-> "search.cc", eq |-> term]>>]
        ELSE [or |-> <<[field |-> "search.toName", regex |-> escapeRegexStr(term)],
                       [field |-> "search.ccName", regex |-> escapeRegexStr(term)]>>]

\* lines 265, 273, 275: the prefix predicate of one subject word
WordPredicate(w) == [field |-> "search.subjectWords", prefix |-> escapeRegexStr(w)]

WordPredicates(words) == [k \in 1..Len(words) |-> WordPredicate(words[k])]

\* lines 211-232
FromStep(st, p) ==
    LET s1 == IF Truthy(p["from"]) THEN PushAnd(st, <<FromPredicate(p["from"])>>) ELSE st
    IN  IF Truthy(p["or.from"]) THEN PushOr(s1, <<FromPredicate(p["or.from"])>>) ELSE s1

\* lines 234-255
ToStep(st, p) ==
    LET s1 == IF Truthy(p["to"]) THEN PushAnd(st, <<ToPredicate(p["to"])>>) ELSE st
    IN  IF Truthy(p["or.to"]) THEN PushOr(s1, <<ToPredicate(p["or.to"])>>) ELSE s1

\* lines 257-277
SubjectStep(st, p) ==
    LET words == Words(trim(toLowerCase(p["subject"])))
        orWords == Words(trim(toLowerCase(p["or.subject"])))
        s1 == IF Truthy(p["subject"]) THEN PushAnd(st, WordPredicates(words)) ELSE st
    IN  IF ~Truthy(p["or.subject"]) THEN s1
        ELSE IF Len(orWords) = 1 THEN PushOr(s1, <<WordPredicate(orWords[1])>>)
        ELSE PushOr(s1, <<[and |-> WordPredicates(orWords)]>>)

\* lines 279-291
AttachmentSizeStep(st, p) ==
    LET f1 == IF p["attachments"] THEN Set(st.filter, "ha", TRUE) ELSE st.filter
        size == (IF p["minSize"] # 0 THEN "$gte" :> p["minSize"] ELSE << >>)
                @@ (IF p["maxSize"] # 0 THEN "$lte" :> p["maxSize"] ELSE << >>)
        f2 == IF p["minSize"] # 0 \/ p["maxSize"] # 0 THEN Set(f1, "size", size) ELSE f1
    IN  Building(f2, st.orQuery)

\* lines 293-297
OrStep(st) == IF Len(st.orQuery) > 0 THEN Set(st.filter, "$or", st.orQuery) ELSE st.filter

\* lines 101-297 once the mailbox scope is known
BuildFilter(p, user, scope) ==
    LET s1 == TextStep(p, user)
        s2 == ScopeStep(s1, scope)
        s3 == UidStep(s2, p)
        s4 == ThreadFlaggedStep(s3, p)
        s5 == SeenStep(s4, p)
        s6 == UnseenStep(s5, p)
        s7 == SearchableStep(s6, p)
        s8 == DateStep(s7, p)
        s9 == FromStep(s8, p)
        s10 == ToStep(s9, p)
        s11 == SubjectStep(s10, p)
        s12 == AttachmentSizeStep(s11, p)
    IN  OrStep(s12)

\* ------------------------------------------------------------------------
\* The messages collection
\* ------------------------------------------------------------------------

Ids == 1..MaxId

\* "no identifier": maxIdAtStart and lastId are null in the code
NullId == 0

\* The stored envelope and decoded subject of the message with identifier i.
EnvelopeOf(i) ==
    CASE i % 3 = 1 -> NoEnvelope
      [] i % 3 = 2 -> Envelope(<<"H", "i">>,
                               <<Entry(<<"J", " ", "D">>, <<"j">>, <<"d">>)>>,
                               <<Entry(Empty, <<"b">>, <<"d">>), Entry(<<"B">>, Empty, <<"d">>)>>,
                               << >>)
      [] OTHER -> Envelope(<<" ">>, << >>, << >>, <<Entry(<<" ">>, <<"A">>, <<"d">>)>>)

SubjectOf(i) == IF i % 3 = 1 THEN <<"R", "e">> ELSE Empty

\* a search field as another writer (the application) stores it
OtherSearch == ("subject" :> <<"x">>) @@ ("subjectWords" :> <<<<"x">>>>)

\* a stored message: exists (document present), has (search field present)
NoDoc == [exists |-> FALSE, has |-> FALSE, search |-> << >>]
NewDoc == [exists |-> TRUE, has |-> FALSE, search |-> << >>]
DocWith(search) == [exists |-> TRUE, has |-> TRUE, search |-> search]

VARIABLES
    docs,            \* the messages collection: Ids -> stored message
    msgSearch,       \* Ids -> the search object line 67 builds from the stored
                     \* envelope and subject of the message, which never change
    pc,              \* position of the addSearchFields run
    maxIdAtStart,    \* line 16
    totalToMigrate,  \* line 23
    lastId,          \* line 37
    batch,           \* line 52: the fetched batch, a sequence of identifiers
    result,          \* line 78: modifiedCount of the bulk write just applied
    processedCount,  \* line 35
    batchNumber,     \* line 36
    runNo,           \* which run of the migration this is
    fetched,         \* history: Ids -> number of batches of this run holding it
    written,         \* history: identifiers this run's bulk writes were applied to
    startEligible,   \* history: identifiers eligible when the snapshot was read
    lateInserted,    \* history: identifiers inserted after the snapshot was read
    prevRun          \* history: how the previous run ended and what it left

migVars == <<docs, msgSearch, pc, maxIdAtStart, totalToMigrate, lastId, batch, result,
             processedCount, batchNumber, runNo, fetched, written, startEligible, lateInserted, prevRun>>

VARIABLES
    payload,         \* the search payload of this prepareSearchFilter call
    fpc,             \* position of the call: which await it is at
    io,              \* history: the store operations the call has made, in order
    count,           \* line 117: nonJunkAndTrashMailboxesCount
    filter,          \* line 101: the filter returned
    error,           \* the code of the error thrown
    nBoxes,          \* mailboxes collection: the user's mailboxes 1..nBoxes that
                     \* are neither Junk nor Trash
    msgBoxes,        \* messages collection: the mailbox ids the user's messages carry
    changes,         \* number of mailbox creations and removals so far
    altScope         \* history: what the listing of the other strategy would
                     \* have returned from the same mailboxes

filterVars == <<payload, fpc, io, count, filter, error, nBoxes, msgBoxes, changes, altScope>>

\* A direct call of one of the two pure functions
VARIABLES
    envelope,       \* buildSearchFromEnvelope: the envelope argument
    subjectField,   \* buildSearchFromEnvelope: the subjectField argument
    search,         \* buildSearchFromEnvelope: the object returned
    epc,            \* buildSearchFromEnvelope: "call", "done" or "idle"
    range,          \* uidRangeStringToQuery: the argument
    query,          \* uidRangeStringToQuery: the value returned
    upc             \* uidRangeStringToQuery: "call", "done" or "idle"

callVars == <<envelope, subjectField, search, epc, range, query, upc>>

Present(d) == {i \in Ids : d[i].exists}

SetMax(S) == IF S = {} THEN NullId ELSE CHOOSE m \in S : \A x \in S : x <= m

SetMin(S) == CHOOSE m \in S : \A x \in S : m <= x

\* .sort({ _id: 1 }).limit(n).toArray()
RECURSIVE SortLimit(_, _)
SortLimit(S, n) ==
    IF S = {} \/ n = 0 THEN << >>
    ELSE <<SetMin(S)>> \o SortLimit(S \ {SetMin(S)}, n - 1)

\* lines 23-26: { search: { $exists: false }, _id: { $lte: maxIdAtStart } }
CountQuery(d, maxId) == {i \in Present(d) : ~d[i].has /\ i <= maxId}

\* mutant: $lt instead of $lte on the snapshot maximum
BatchQueryLt(d, maxId, last) ==
    {i \in Present(d) : ~d[i].has /\ i < maxId /\ (last # NullId => i > last)}

\* mutant: the loop query without search: { $exists: false }
BatchQueryAll(d, maxId, last) ==
    {i \in Present(d) : i <= maxId /\ (last # NullId => i > last)}

\* mutant: the loop query without _id.$gt = lastId
BatchQueryNoCursor(d, maxId, last) ==
    {i \in Present(d) : ~d[i].has /\ i <= maxId}

\* lines 41-49: the same, with _id.$gt = lastId when lastId is set
BatchQuery(d, maxId, last) ==
    {i \in Present(d) : ~d[i].has /\ i <= maxId /\ (last # NullId => i > last)}

\* line 67: buildSearchFromEnvelope(msg.envelope, msg.subject) of each message
SearchOf == [i \in Ids |-> buildSearchFromEnvelope(EnvelopeOf(i), SubjectOf(i))]

\* lines 66-75: one updateOne per fetched document
BulkOps(b) == [k \in 1..Len(b) |-> [id |-> b[k], search |-> msgSearch[b[k]]]]

OpFor(ops, i) == CHOOSE k \in 1..Len(ops) : ops[k].id = i

\* mutant: the update sets the keys of search at the top level of the
\* document ({ $set: search }), so the search field itself stays absent
ApplyOpsTopLevel(d, ops, applied) == d

\* line 72: { $set: { search } } on the document with that _id, if it exists
ApplyOps(d, ops, applied) ==
    [i \in Ids |->
        IF i \in applied /\ d[i].exists
        THEN DocWith(ops[OpFor(ops, i)].search)
        ELSE d[i]]

\* line 79: result.modifiedCount
ModifiedCount(d, d2) == Cardinality({i \in Ids : d[i] # d2[i]})

NoPrevRun == [outcome |-> "none", written |-> {}, docs |-> [i \in Ids |-> NoDoc]]

\* The script starts on any collection: each identifier is unused, or holds
\* a message without the search field, or one that has it already.
MigInit ==
    /\ docs \in [Ids -> {NoDoc, NewDoc, DocWith(OtherSearch)}]
    /\ msgSearch = SearchOf
    /\ pc = "start"
    /\ maxIdAtStart = NullId
    /\ totalToMigrate = 0
    /\ lastId = NullId
    /\ batch = << >>
    /\ result = 0
    /\ processedCount = 0
    /\ batchNumber = 0
    /\ runNo = 1
    /\ fetched = [i \in Ids |-> 0]
    /\ written = {}
    /\ startEligible = {}
    /\ lateInserted = {}
    /\ prevRun = NoPrevRun

\* what only BulkWrite and Rerun change
runHistory == <<runNo, prevRun, result>>

\* lines 15-21
FindMax ==
    /\ pc = "start"
    /\ maxIdAtStart' = SetMax(Present(docs))
    /\ startEligible' = CountQuery(docs, maxIdAtStart')
    /\ lateInserted' = {}
    /\ pc' = IF maxIdAtStart' = NullId THEN "done" ELSE "count"
    /\ UNCHANGED <<docs, totalToMigrate, lastId, batch, processedCount, batchNumber,
                   fetched, written, runHistory>>
    /\ UNCHANGED msgSearch
    /\ UNCHANGED filterVars
    /\ UNCHANGED callVars

\* lines 23-38
Count ==
    /\ pc = "count"
    /\ totalToMigrate' = Cardinality(CountQuery(docs, maxIdAtStart))
    /\ pc' = IF totalToMigrate' = 0 THEN "done" ELSE "fetch"
    /\ processedCount' = 0
    /\ batchNumber' = 0
    /\ lastId' = NullId
    /\ UNCHANGED <<docs, maxIdAtStart, batch, fetched, written, startEligible,
                   lateInserted, runHistory>>
    /\ UNCHANGED msgSearch
    /\ UNCHANGED filterVars
    /\ UNCHANGED callVars

\* mutant: an empty batch does not end the loop (continue instead of break
\* at line 62)
FetchContinue ==
    /\ pc = "fetch"
    /\ batch' = SortLimit(BatchQuery(docs, maxIdAtStart, lastId), BATCH_SIZE)
    /\ fetched' = [i \in Ids |->
                    IF \E k \in 1..Len(batch') : batch'[k] = i
                    THEN fetched[i] + 1 ELSE fetched[i]]
    /\ pc' = IF Len(batch') = 0 THEN "fetch" ELSE "write"
    /\ UNCHANGED <<docs, maxIdAtStart, totalToMigrate, lastId, processedCount,
                   batchNumber, written, startEligible, lateInserted, runHistory>>
    /\ UNCHANGED msgSearch
    /\ UNCHANGED filterVars
    /\ UNCHANGED callVars

\* lines 41-75
Fetch ==
    /\ pc = "fetch"
    /\ batch' = SortLimit(BatchQuery(docs, maxIdAtStart, lastId), BATCH_SIZE)
    /\ fetched' = [i \in Ids |->
                    IF \E k \in 1..Len(batch') : batch'[k] = i
                    THEN fetched[i] + 1 ELSE fetched[i]]
    /\ pc' = IF Len(batch') = 0 THEN "done" ELSE "write"
    /\ UNCHANGED <<docs, maxIdAtStart, totalToMigrate, lastId, processedCount,
                   batchNumber, written, startEligible, lateInserted, runHistory>>
    /\ UNCHANGED msgSearch
    /\ UNCHANGED filterVars
    /\ UNCHANGED callVars

BatchIds == {batch[k] : k \in 1..Len(batch)}

\* line 78: the bulk write as the store applies it
BulkWrite ==
    /\ pc = "write"
    /\ docs' = ApplyOps(docs, BulkOps(batch), BatchIds)
    /\ written' = written \cup {i \in BatchIds : docs[i].exists}
    /\ result' = ModifiedCount(docs, docs')
    /\ pc' = "advance"
    /\ UNCHANGED <<maxIdAtStart, totalToMigrate, lastId, batch, processedCount,
                   batchNumber, fetched, startEligible, lateInserted, runNo, prevRun>>
    /\ UNCHANGED msgSearch
    /\ UNCHANGED filterVars
    /\ UNCHANGED callVars

\* lines 79-89: the bulk write has returned
Advance ==
    /\ pc = "advance"
    /\ processedCount' = processedCount + result
    /\ batchNumber' = batchNumber + 1
    /\ lastId' = batch[Len(batch)]
    /\ pc' = "fetch"
    /\ UNCHANGED <<docs, maxIdAtStart, totalToMigrate, batch, fetched, written,
                   startEligible, lateInserted, runHistory>>
    /\ UNCHANGED msgSearch
    /\ UNCHANGED filterVars
    /\ UNCHANGED callVars

\* a storage error rejects the find of line 15, the count of line 23 or the
\* fetch of line 52: nothing catches it and the run ends
StorageError ==
    /\ pc \in {"start", "count", "fetch"}
    /\ pc' = "aborted"
    /\ UNCHANGED <<docs, maxIdAtStart, totalToMigrate, lastId, batch, processedCount,
                   batchNumber, fetched, written, startEligible, lateInserted, runHistory>>
    /\ UNCHANGED msgSearch
    /\ UNCHANGED filterVars
    /\ UNCHANGED callVars

\* line 78 with { ordered: false }: some operations fail, the others are
\* applied, and bulkWrite throws
BulkWriteError ==
    /\ pc = "write"
    /\ \E applied \in SUBSET BatchIds :
        /\ applied # BatchIds
        /\ docs' = ApplyOps(docs, BulkOps(batch), applied)
        /\ written' = written \cup {i \in applied : docs[i].exists}
    /\ pc' = "aborted"
    /\ UNCHANGED <<maxIdAtStart, totalToMigrate, lastId, batch, processedCount,
                   batchNumber, fetched, startEligible, lateInserted, runHistory>>
    /\ UNCHANGED msgSearch
    /\ UNCHANGED filterVars
    /\ UNCHANGED callVars

\* the process dies while the loop of lines 40-90 runs; at "advance" the
\* bulk write is applied and the cursor of line 85 is not yet advanced
Crash ==
    /\ pc \in {"write", "advance"}
    /\ pc' = "aborted"
    /\ UNCHANGED <<docs, maxIdAtStart, totalToMigrate, lastId, batch, processedCount,
                   batchNumber, fetched, written, startEligible, lateInserted, runHistory>>
    /\ UNCHANGED msgSearch
    /\ UNCHANGED filterVars
    /\ UNCHANGED callVars

\* lines 201-203: the script is started again after a run has ended
Rerun ==
    /\ pc \in {"done", "aborted"}
    /\ runNo < MaxRuns
    /\ prevRun' = [outcome |-> pc, written |-> written, docs |-> docs]
    /\ runNo' = runNo + 1
    /\ pc' = "start"
    /\ maxIdAtStart' = NullId
    /\ totalToMigrate' = 0
    /\ lastId' = NullId
    /\ batch' = << >>
    /\ result' = 0
    /\ processedCount' = 0
    /\ batchNumber' = 0
    /\ fetched' = [i \in Ids |-> 0]
    /\ written' = {}
    /\ startEligible' = {}
    /\ lateInserted' = {}
    /\ UNCHANGED docs
    /\ UNCHANGED msgSearch
    /\ UNCHANGED filterVars
    /\ UNCHANGED callVars

SnapshotTaken == pc \in {"count", "fetch", "write", "advance"}

\* another writer inserts a message, with or without its search field; its
\* identifier is any unused one: identifiers are generated by the writers
\* (ObjectId) and are not handed out in insertion order
Insert ==
    /\ \E i \in Ids \ Present(docs), d \in {NewDoc, DocWith(OtherSearch)} :
        /\ docs' = [docs EXCEPT ![i] = d]
        /\ lateInserted' = IF SnapshotTaken THEN lateInserted \cup {i} ELSE lateInserted
    /\ UNCHANGED <<pc, maxIdAtStart, totalToMigrate, lastId, batch, processedCount,
                   batchNumber, fetched, written, startEligible, runHistory>>
    /\ UNCHANGED msgSearch
    /\ UNCHANGED filterVars
    /\ UNCHANGED callVars

\* another writer sets the search field of a stored message
SetSearch ==
    /\ \E i \in Present(docs) :
        /\ ~docs[i].has
        /\ docs' = [docs EXCEPT ![i] = DocWith(OtherSearch)]
    /\ UNCHANGED <<pc, maxIdAtStart, totalToMigrate, lastId, batch, processedCount,
                   batchNumber, fetched, written, startEligible, lateInserted, runHistory>>
    /\ UNCHANGED msgSearch
    /\ UNCHANGED filterVars
    /\ UNCHANGED callVars

\* ------------------------------------------------------------------------
\* prepareSearchFilter: the call, one action per await
\* ------------------------------------------------------------------------

\* the 200 of line 132
Threshold == 200

\* mailbox changes by other requests while one call runs
MaxMailboxChanges == 1

\* number of fields a payload of the model carries
MaxFields == 3

\* the ids of the user's Junk and Trash mailboxes
SpecialBoxes == {-1, -2}

\* countDocuments was not awaited or threw: the variable stays undefined
Undefined == -1

UserId == "u1"

\* mutant: the scope branch is taken whenever searchable is set, also with
\* an explicit mailbox (if instead of else if at line 115)
NeedsScopeAnyMailbox(p) == p["searchable"]

\* lines 113-115: the branch that resolves the scope from the mailboxes collection
NeedsScope(p) == ~p["mailbox"] /\ p["searchable"]

\* find({ user, specialUse: { $nin: ['\\Junk', '\\Trash'] } }) of line 137
ListRegular(n) == [op |-> "in", ids |-> 1..n]

\* find({ user, specialUse: { $in: ['\\Junk', '\\Trash'] } }) of line 154
ListSpecial == [op |-> "nin", ids |-> SpecialBoxes]

\* line 132
UseIn(c) == c # Undefined /\ c # 0 /\ c < Threshold

\* A call starts. The mailboxes collection is read only by the scope branch,
\* so its size varies only for the payloads that take it: no mailbox, one,
\* and the counts around the threshold. The user's last mailbox and Junk
\* (-1) hold messages.
FilterInit ==
    /\ payload \in PayloadsFrom(1, MaxFields)
    /\ fpc = "lookup"
    /\ io = << >>
    /\ count = Undefined
    /\ filter = << >>
    /\ error = "none"
    /\ nBoxes \in IF NeedsScope(payload) THEN {0, 1, Threshold - 1, Threshold} ELSE {1}
    /\ msgBoxes = {b \in {nBoxes} : b > 0} \cup {-1}
    /\ changes = 0
    /\ altScope = NoScope

\* lines 71-98: the identity lookup throws
LookupError ==
    /\ fpc = "lookup"
    /\ io' = Append(io, <<"users.findOne", "error">>)
    /\ error' = "InternalDatabaseError"
    /\ fpc' = "failed"
    /\ UNCHANGED <<payload, count, filter, nBoxes, msgBoxes, changes, altScope>>
    /\ UNCHANGED migVars
    /\ UNCHANGED callVars

\* lines 71-98: the identity lookup finds no user
LookupAbsent ==
    /\ fpc = "lookup"
    /\ io' = Append(io, <<"users.findOne", "null">>)
    /\ error' = "UserNotFound"
    /\ fpc' = "failed"
    /\ UNCHANGED <<payload, count, filter, nBoxes, msgBoxes, changes, altScope>>
    /\ UNCHANGED migVars
    /\ UNCHANGED callVars

\* lines 71-115: the user is found; without the scope branch the call runs
\* to its return (lines 169-297)
LookupFound ==
    /\ fpc = "lookup"
    /\ io' = Append(io, <<"users.findOne", "ok">>)
    /\ IF NeedsScope(payload)
       THEN /\ fpc' = "count"
            /\ UNCHANGED filter
       ELSE /\ fpc' = "done"
            /\ filter' = BuildFilter(payload, UserId,
                                     IF payload["mailbox"] THEN MailboxParam ELSE NoScope)
    /\ UNCHANGED <<payload, count, error, nBoxes, msgBoxes, changes, altScope>>
    /\ UNCHANGED migVars
    /\ UNCHANGED callVars

\* lines 119-120: the count probe answers
CountOk ==
    /\ fpc = "count"
    /\ io' = Append(io, <<"mailboxes.countDocuments", "ok">>)
    /\ count' = nBoxes
    /\ fpc' = "list"
    /\ UNCHANGED <<payload, filter, error, nBoxes, msgBoxes, changes, altScope>>
    /\ UNCHANGED migVars
    /\ UNCHANGED callVars

\* mutant: the count probe has no try/catch and its error is thrown
CountErrorThrown ==
    /\ fpc = "count"
    /\ io' = Append(io, <<"mailboxes.countDocuments", "error">>)
    /\ error' = "InternalDatabaseError"
    /\ fpc' = "failed"
    /\ UNCHANGED <<payload, count, filter, nBoxes, msgBoxes, changes, altScope>>
    /\ UNCHANGED migVars
    /\ UNCHANGED callVars

\* lines 119-123: the count probe throws and the catch ignores it
CountError ==
    /\ fpc = "count"
    /\ io' = Append(io, <<"mailboxes.countDocuments", "error">>)
    /\ count' = Undefined
    /\ fpc' = "list"
    /\ UNCHANGED <<payload, filter, error, nBoxes, msgBoxes, changes, altScope>>
    /\ UNCHANGED migVars
    /\ UNCHANGED callVars

\* lines 132-142 or 149-159, then 169-297: the listing answers
ListOk ==
    /\ fpc = "list"
    /\ io' = Append(io, <<"mailboxes.find", "ok">>)
    /\ filter' = BuildFilter(payload, UserId,
                             IF UseIn(count) THEN ListRegular(nBoxes) ELSE ListSpecial)
    /\ altScope' = IF UseIn(count) THEN ListSpecial ELSE ListRegular(nBoxes)
    /\ fpc' = "done"
    /\ UNCHANGED <<payload, count, error, nBoxes, msgBoxes, changes>>
    /\ UNCHANGED migVars
    /\ UNCHANGED callVars

\* lines 143-148 or 160-165: the listing throws
ListError ==
    /\ fpc = "list"
    /\ io' = Append(io, <<"mailboxes.find", "error">>)
    /\ error' = "InternalDatabaseError"
    /\ fpc' = "failed"
    /\ UNCHANGED <<payload, count, filter, nBoxes, msgBoxes, changes, altScope>>
    /\ UNCHANGED migVars
    /\ UNCHANGED callVars

\* another request creates a mailbox of the user
CreateMailbox ==
    /\ fpc \in {"count", "list"}
    /\ changes < MaxMailboxChanges
    /\ nBoxes' = nBoxes + 1
    /\ changes' = changes + 1
    /\ UNCHANGED <<payload, fpc, io, count, filter, error, msgBoxes, altScope>>
    /\ UNCHANGED migVars
    /\ UNCHANGED callVars

\* another request removes the user's mailbox nBoxes; its messages stay in
\* the messages collection until they are purged
RemoveMailbox ==
    /\ fpc \in {"count", "list"}
    /\ changes < MaxMailboxChanges
    /\ nBoxes > 0
    /\ nBoxes' = nBoxes - 1
    /\ changes' = changes + 1
    /\ UNCHANGED <<payload, fpc, io, count, filter, error, msgBoxes, altScope>>
    /\ UNCHANGED migVars
    /\ UNCHANGED callVars

\* the messages a mailbox scope matches (by the mailbox id they carry)
Matched(scope) ==
    CASE scope.op = "in" -> {b \in msgBoxes : b \in scope.ids}
      [] scope.op = "nin" -> {b \in msgBoxes : b \notin scope.ids}
      [] scope.op = "eq" -> {b \in msgBoxes : b = scope.id}
      [] OTHER -> msgBoxes

\* ------------------------------------------------------------------------
\* Specifications
\* ------------------------------------------------------------------------

vars == <<migVars, filterVars, callVars>>

\* no prepareSearchFilter call in the migration specifications
FilterIdle ==
    /\ payload = EmptyPayload
    /\ fpc = "idle"
    /\ io = << >>
    /\ count = Undefined
    /\ filter = << >>
    /\ error = "none"
    /\ nBoxes = 0
    /\ msgBoxes = {}
    /\ changes = 0
    /\ altScope = NoScope

\* no migration run in the filter specification
MigIdle ==
    /\ docs = [i \in Ids |-> NoDoc]
    /\ msgSearch = << >>
    /\ pc = "idle"
    /\ maxIdAtStart = NullId
    /\ totalToMigrate = 0
    /\ lastId = NullId
    /\ batch = << >>
    /\ result = 0
    /\ processedCount = 0
    /\ batchNumber = 0
    /\ runNo = 0
    /\ fetched = [i \in Ids |-> 0]
    /\ written = {}
    /\ startEligible = {}
    /\ lateInserted = {}
    /\ prevRun = NoPrevRun

\* no direct call of buildSearchFromEnvelope
ExtractIdle ==
    /\ envelope = NoEnvelope
    /\ subjectField = Empty
    /\ search = << >>
    /\ epc = "idle"

\* no direct call of uidRangeStringToQuery
ParseIdle ==
    /\ range = Empty
    /\ query = NoQuery
    /\ upc = "idle"

CallIdle == ExtractIdle /\ ParseIdle

\* the migration script starts; no prepareSearchFilter call
Init == MigInit /\ FilterIdle /\ CallIdle

\* a prepareSearchFilter call starts; no migration run
InitFilter == FilterInit /\ MigIdle /\ CallIdle

\* successive migration runs with storage errors and crashes, and no other
\* writer
NextAlone ==
    \/ FindMax \/ Count \/ Fetch \/ BulkWrite \/ Advance
    \/ StorageError \/ BulkWriteError \/ Crash \/ Rerun
SpecAlone == Init /\ [][NextAlone]_vars

\* one migration run with failures, while other writers insert messages and
\* set search fields
Next ==
    \/ FindMax \/ Count \/ Fetch \/ BulkWrite \/ Advance
    \/ StorageError \/ BulkWriteError \/ Crash
    \/ Insert \/ SetSearch
Spec == Init /\ [][Next]_vars

\* the steps of the run
RunStep == FindMax \/ Count \/ Fetch \/ BulkWrite \/ Advance

\* one migration run without storage error, while other writers insert
\* messages and set search fields; every await of the run resolves, so a run
\* that can take a step takes it
NextLive == RunStep \/ Insert \/ SetSearch
SpecLive == Init /\ [][NextLive]_vars /\ WF_vars(RunStep)

\* one prepareSearchFilter call, with other requests changing the mailboxes
NextFilter ==
    \/ LookupError \/ LookupAbsent \/ LookupFound
    \/ CountOk \/ CountError \/ ListOk \/ ListError
    \/ CreateMailbox \/ RemoveMailbox
SpecFilter == InitFilter /\ [][NextFilter]_vars

(***************************************************************************)
(* Direct calls of the two pure functions, over bounded arguments          *)
(***************************************************************************)

\* longest subject string of a buildSearchFromEnvelope call
MaxStrLen == 2

\* longest from list of a buildSearchFromEnvelope call
MaxEntries == 1

\* longest argument of a uidRangeStringToQuery call
MaxUidLen == 5

SeqsUpTo(S, n) == UNION {[1..k -> S] : k \in 0..n}

\* envelope entries with a missing name, user or domain, and with a name of
\* white space only
CallEntries ==
    {Entry(n, u, d) : n \in {Empty, <<" ">>, <<"J">>},
                      u \in {Empty, <<"A">>},
                      d \in {Empty, <<"d">>}}

CallSubjects == SeqsUpTo({" ", "A"}, MaxStrLen)

CallLists == {<< >>, <<Entry(<<" B">>, <<"b">>, <<"D">>)>>}

\* absent, partial and complete envelopes
CallEnvelopes ==
    {NoEnvelope} \cup
    {Envelope(s, f, t, c) : s \in CallSubjects,
                            f \in SeqsUpTo(CallEntries, MaxEntries),
                            t \in CallLists, c \in CallLists}

\* a caller is about to call buildSearchFromEnvelope(envelope, subjectField)
ExtractInit ==
    /\ envelope \in CallEnvelopes
    /\ subjectField \in CallSubjects
    /\ search = << >>
    /\ epc = "call"

\* lines 105-199: the call returns
BuildSearch ==
    /\ epc = "call"
    /\ search' = buildSearchFromEnvelope(envelope, subjectField)
    /\ epc' = "done"
    /\ UNCHANGED <<envelope, subjectField, range, query, upc>>
    /\ UNCHANGED migVars
    /\ UNCHANGED filterVars

InitExtract == ExtractInit /\ ParseIdle /\ MigIdle /\ FilterIdle
SpecExtract == InitExtract /\ [][BuildSearch]_vars

UidChars == {"0", "1", "2", ",", ":", "*", "a"}

\* a caller is about to call uidRangeStringToQuery(range)
ParseInit ==
    /\ range \in SeqsUpTo(UidChars, MaxUidLen)
    /\ query = NoQuery
    /\ upc = "call"

\* lines 6-47: the call returns
ParseRange ==
    /\ upc = "call"
    /\ query' = uidRangeStringToQuery(range)
    /\ upc' = "done"
    /\ UNCHANGED <<envelope, subjectField, search, epc, range>>
    /\ UNCHANGED migVars
    /\ UNCHANGED filterVars

InitParse == ParseInit /\ ExtractIdle /\ MigIdle /\ FilterIdle
SpecParse == InitParse /\ [][ParseRange]_vars

\* ------------------------------------------------------------------------
\* Properties of the migration
\* ------------------------------------------------------------------------

NothingFetched == \A i \in Ids : fetched[i] = 0

\* C1: a run that follows a completed run, with no other writer, fetches
\* nothing, writes nothing, counts nothing as processed and leaves every
\* document as the completed run left it
C1_SecondRunIsNoOp ==
    prevRun.outcome = "done" =>
        /\ NothingFetched
        /\ written = {}
        /\ processedCount = 0
        /\ docs = prevRun.docs

\* a second run has ended after a first run that wrote search fields
C1_Witness ==
    /\ prevRun.outcome = "done"
    /\ prevRun.written # {}
    /\ pc = "done"

\* C2: a message inserted after the run read its snapshot maximum is never
\* fetched and never written by that run
C2_LateInsertUntouched ==
    \A i \in lateInserted : fetched[i] = 0 /\ i \notin written

\* C3: no message is fetched in two batches of one run, and when the run
\* completes every message that lacked the search field at the snapshot, at
\* or below the snapshot maximum, was fetched once and written
C3_StagedExactlyOnce ==
    /\ \A i \in Ids : fetched[i] <= 1
    /\ pc = "done" =>
        /\ \A i \in startEligible : fetched[i] = 1
        /\ startEligible \subseteq written

\* a run has completed in several batches, the last one not full
C3_Witness ==
    /\ pc = "done"
    /\ batchNumber >= 2
    /\ Cardinality(startEligible) > BATCH_SIZE

\* C4: what an aborted run wrote keeps its search field; the run after an
\* aborted run fetches and writes only messages the aborted run left without
\* the field, and once it completes every message at or below its snapshot
\* maximum has the field
C4_ResumeAfterAbort ==
    /\ pc = "aborted" => \A i \in written : docs[i].has
    /\ prevRun.outcome = "aborted" =>
        /\ \A i \in prevRun.written : docs[i].has /\ fetched[i] = 0
        /\ \A i \in Ids : fetched[i] > 0 => ~prevRun.docs[i].has
        /\ \A i \in written : ~prevRun.docs[i].has
        /\ pc = "done" => \A i \in Present(docs) : i <= maxIdAtStart => docs[i].has

\* a run that wrote part of the collection was aborted and the next run has
\* completed the rest
C4_Witness ==
    /\ prevRun.outcome = "aborted"
    /\ prevRun.written # {}
    /\ written # {}
    /\ pc = "done"

\* ------------------------------------------------------------------------
\* Properties of prepareSearchFilter
\* ------------------------------------------------------------------------

LastIo == io[Len(io)]

CountFailed == \E k \in 1..Len(io) : io[k] = <<"mailboxes.countDocuments", "error">>

C6_StrategyByCount ==
    (fpc = "done" /\ NeedsScope(payload)) =>
        /\ (count # Undefined /\ count < Threshold) => filter["mailbox"].op = "in"
        /\ (count = Undefined \/ count >= Threshold) => filter["mailbox"].op = "nin"

\* C7: the scope the call returned and the scope of the other strategy,
\* listed from the same mailboxes, match the same messages
C7_StrategiesEquivalent ==
    (fpc = "done" /\ NeedsScope(payload)) =>
        Matched(filter["mailbox"]) = Matched(altScope)

\* C8: with unseen and seen both set the filter requires unseen = true
C8_UnseenWins ==
    (fpc = "done" /\ payload["unseen"] /\ payload["seen"]) =>
        Has(filter, "unseen") /\ filter["unseen"] = TRUE

\* a filter was compiled from unseen, seen and one more field
C8_Witness ==
    /\ fpc = "done"
    /\ payload["unseen"] /\ payload["seen"]
    /\ \E f \in PayloadFields \ {"unseen", "seen"} : payload[f] # Absent(f)

\* C9: without an explicit mailbox and without searchable the filter has no
\* uid predicate
C9_NoUidWithoutScope ==
    (fpc = "done" /\ ~payload["mailbox"] /\ ~payload["searchable"]) =>
        ~Has(filter, "uid")

\* a filter was compiled from an id expression that parses, with flags, and
\* neither mailbox nor searchable
C9_Witness ==
    /\ fpc = "done"
    /\ ~payload["mailbox"] /\ ~payload["searchable"]
    /\ QueryTruthy(uidRangeStringToQuery(payload["id"]))
    /\ payload["flagged"] \/ payload["seen"] \/ payload["unseen"] \/ Truthy(payload["query"])

OrQueryOnly ==
    /\ fpc = "done"
    /\ ~Truthy(payload["query"]) /\ Truthy(payload["or.query"])
    /\ ~payload["seen"] /\ ~payload["unseen"] /\ ~payload["searchable"]

TextInOrGroup ==
    /\ Has(filter, "$or")
    /\ \E k \in 1..Len(filter["$or"]) :
        /\ DOMAIN filter["$or"][k] = {"text"}
        /\ filter["$or"][k].text = payload["or.query"]

\* C10 as stated: the or-bundle query adds a full-text branch to the OR-group
\* and no searchable = true predicate
C10_OrQueryLeavesSearchable ==
    OrQueryOnly => TextInOrGroup /\ ~Has(filter, "searchable")

\* C10: the or-bundle query adds a full-text branch to the OR-group, no
\* top-level full-text predicate, and the predicate searchable = true
C10_OrQueryForcesSearchable ==
    OrQueryOnly =>
        /\ TextInOrGroup
        /\ ~Has(filter, "$text")
        /\ Has(filter, "searchable") /\ filter["searchable"] = TRUE

\* a filter was compiled from an or-bundle query and no query, seen, unseen
\* or searchable
C10_Witness == OrQueryOnly /\ Len(filter["$or"]) >= 1

\* the fields named by the predicates of a list, at its own level
LeafFields(preds) ==
    {preds[k].field : k \in {j \in 1..Len(preds) : "field" \in DOMAIN preds[j]}}

\* the predicates grouped inside one predicate of a list
Nested(pred) ==
    IF "or" \in DOMAIN pred THEN pred.or
    ELSE IF "and" \in DOMAIN pred THEN pred.and
    ELSE << >>

FieldsOf(preds) ==
    LeafFields(preds) \cup UNION {LeafFields(Nested(preds[k])) : k \in 1..Len(preds)}

\* every search.* path a compiled filter matches on
SearchFields(f) ==
    FieldsOf(AndOf(f)) \cup FieldsOf(IF Has(f, "$or") THEN f["$or"] ELSE << >>)

\* the path of a key of the search object inside a message document
SearchPath(key) ==
    CASE key = "from" -> "search.from"
      [] key = "fromName" -> "search.fromName"
      [] key = "to" -> "search.to"
      [] key = "toName" -> "search.toName"
      [] key = "cc" -> "search.cc"
      [] key = "ccName" -> "search.ccName"
      [] key = "subject" -> "search.subject"

\* every path buildSearchFromEnvelope can write
EmittedPaths ==
    {SearchPath(key) : key \in
        UNION {DOMAIN buildSearchFromEnvelope(e, s) : e \in CallEnvelopes, s \in CallSubjects}}

\* C11: every search.* path a compiled filter matches on is a path that
\* buildSearchFromEnvelope can write
C11_FilterFieldsAreEmitted ==
    fpc = "done" => SearchFields(filter) \subseteq EmittedPaths

ReadOps == {"users.findOne", "mailboxes.countDocuments", "mailboxes.find"}

\* C12: the I/O of a call is one identity lookup first and nothing after it
\* when it fails or finds nothing; then at most one mailbox count, only
\* without an explicit mailbox and with searchable set; then at most one
\* mailbox listing, only after the count attempt; nothing else, and no write
C12_IoProtocol ==
    /\ Len(io) <= 3
    /\ fpc # "lookup" => Len(io) >= 1
    /\ \A k \in 1..Len(io) :
        /\ io[k][1] \in ReadOps
        /\ io[k][1] = "users.findOne" <=> k = 1
        /\ io[k][1] = "mailboxes.countDocuments" =>
                k = 2 /\ ~payload["mailbox"] /\ payload["searchable"]
        /\ io[k][1] = "mailboxes.find" =>
                k = 3 /\ io[2][1] = "mailboxes.countDocuments"
        /\ k > 1 => io[1][2] = "ok"

C12_Witness ==
    /\ fpc = "done"
    /\ Len(io) = 3
    /\ io[2] = <<"mailboxes.countDocuments", "error">>
    /\ io[3][1] = "mailboxes.find"

Ascending(ns) == \A k \in 1..(Len(ns) - 1) : ns[k] <= ns[k + 1]

\* the same numbers, each as often
SameNumbers(ns, ms) ==
    /\ Len(ns) = Len(ms)
    /\ \A k \in 1..Len(ms) :
        Cardinality({j \in 1..Len(ns) : ns[j] = ms[k]})
            = Cardinality({j \in 1..Len(ms) : ms[j] = ms[k]})

\* C13: the parser follows the documented grammar on every string: an
\* integer n gives equality with n; a comma list gives member-of with the
\* same numbers ascending, duplicates kept; a:b gives equality when a = b and
\* else the range from the smaller to the larger; a:* gives the lower bound a
\* and no upper bound; any other string gives no constraint
C13_ParserFollowsGrammar ==
    upc = "done" =>
        LET items == split(range, ",")
            ends == split(range, ":")
            a == DigitsValue(ends[1])
            b == DigitsValue(ends[2])
        IN  IF IsNumber(range) THEN query = EqQuery(DigitsValue(range))
            ELSE IF \A k \in 1..Len(items) : IsNumber(items[k])
            THEN /\ query.op = "in"
                 /\ Ascending(query.ns)
                 /\ SameNumbers(query.ns, [k \in 1..Len(items) |-> DigitsValue(items[k])])
            ELSE IF Len(ends) = 2 /\ IsNumber(ends[1]) /\ IsNumber(ends[2])
            THEN IF a = b THEN query = EqQuery(a)
                 ELSE query = RangeQuery(SetMin({a, b}), SetMax({a, b}))
            ELSE IF Len(ends) = 2 /\ IsNumber(ends[1]) /\ ends[2] = <<"*">>
            THEN query = GteQuery(a)
            ELSE query = NoQuery

C13_Witness ==
    /\ upc = "done"
    /\ range = <<"2", ":", "1">>
    /\ query = RangeQuery(1, 2)

\* C14: every field of the object buildSearchFromEnvelope returns is
\* non-empty: an address list holds an address, a name field and the subject
\* are non-empty strings, so a subject of white space only is omitted
C14_FieldsNonEmpty ==
    epc = "done" => \A key \in DOMAIN search : search[key] # << >>

\* C16: when the pre-decoded subject is non-empty after trimming, the
\* returned subject is that subject lower-cased and trimmed, whether the
\* envelope is present, partial or absent
C16_DecodedSubjectKept ==
    epc = "done" /\ trim(subjectField) # Empty =>
        /\ "subject" \in DOMAIN search
        /\ search["subject"] = trim(toLowerCase(subjectField))

\* C15: once a mailbox scope is resolved and the id expression matches one of
\* the three grammars, the filter's uid predicate is the parser's result; so
\* id "n" with an explicit mailbox gives uid = n for every integer n >= 0
C15_UidIsParserResult ==
    fpc = "done" /\ Has(filter, "mailbox")
                 /\ uidRangeStringToQuery(payload["id"]) # NoQuery =>
        /\ Has(filter, "uid")
        /\ filter["uid"] = uidRangeStringToQuery(payload["id"])

\* the $and / $or groups nested in the predicates of a list are non-empty
NestedNonEmpty(preds) ==
    \A k \in 1..Len(preds) :
        /\ "or" \in DOMAIN preds[k] => Len(preds[k].or) > 0
        /\ "and" \in DOMAIN preds[k] => Len(preds[k].and) > 0

\* C19: every $and and $or group of a compiled filter, top-level or nested
\* in the OR-group, is non-empty, also for a subject or an or-bundle subject
\* of white space only
C19_GroupsNonEmpty ==
    fpc = "done" =>
        /\ Has(filter, "$and") => Len(filter["$and"]) > 0 /\ NestedNonEmpty(filter["$and"])
        /\ Has(filter, "$or") => Len(filter["$or"]) > 0 /\ NestedNonEmpty(filter["$or"])

\* the cursor is the identifier of a fetched record at or below the snapshot
\* maximum; a batch holds at most BATCH_SIZE records, all above the cursor
\* they were fetched with and at or below the snapshot maximum
CursorInBounds ==
    /\ lastId # NullId => fetched[lastId] > 0 /\ lastId <= maxIdAtStart
    /\ Len(batch) <= BATCH_SIZE
    /\ pc \in {"write", "advance"} =>
        \A k \in 1..Len(batch) : batch[k] > lastId /\ batch[k] <= maxIdAtStart

\* the snapshot maximum never changes once taken; the cursor only moves up,
\* and it moves up with every batch that was fetched non-empty
CursorMovesUp ==
    /\ pc # "start" => maxIdAtStart' = maxIdAtStart
    /\ lastId' # lastId => lastId' > lastId /\ lastId' \in BatchIds
    /\ pc = "advance" /\ pc' = "fetch" => Len(batch) > 0 /\ lastId' > lastId

\* C17: within one run the snapshot maximum is assigned once and never
\* changes; the cursor strictly increases with every non-empty batch, is the
\* identifier of a fetched record and never exceeds the snapshot maximum;
\* every batch holds at most BATCH_SIZE records, all with an identifier above
\* the cursor and at or below the snapshot maximum
C17_CursorInvariant == [](CursorInBounds) /\ [][CursorMovesUp]_vars

C17_Witness ==
    /\ pc = "fetch"
    /\ batchNumber = 2
    /\ lastId = maxIdAtStart
    /\ lateInserted # {}

\* C18: without storage error a run reaches Done, also while other writers
\* insert records and set search fields, and it never makes more batches than
\* there are records with an identifier at or below the snapshot maximum
C18_RunTerminates ==
    /\ <>(pc = "done")
    /\ [](batchNumber <= Cardinality({i \in Present(docs) : i <= maxIdAtStart}))

C18_Witness ==
    /\ pc = "done"
    /\ batchNumber = 2
    /\ lateInserted # {}
    /\ \E i \in Ids : docs[i].search = OtherSearch

\* C20: a step of the run never replaces a search field that is on the record
\* when its bulk write is applied; a value another writer stored between the
\* run's fetch and its bulk write survives
C20_ExistingSearchSurvives ==
    [][\A i \in Ids : docs[i].has => docs'[i].has /\ docs'[i].search = docs[i].search]_vars

====
